---- MODULE Spec2Model ----
(***************************************************************************)
(* Camera capture-to-network pipeline of esp_rs_cam_app                    *)
(* (crates/app/src/cam/mod.rs).                                            *)
(*                                                                         *)
(* Two variants of the frame assembler are modelled, one loop iteration    *)
(* per step, an iteration that awaits a write being split at the .await:   *)
(*   "direct" : stream_camera, which scans DMA chunks for JPEG SOI/EOI     *)
(*              markers, accumulates into the fixed frame_buffer and hands *)
(*              slices of it to on_chunk;                                  *)
(*   "queue"  : cam_task, which accumulates into a Vec and sends           *)
(*              FrameStart / Data / FrameEnd events on CAM_CHANNEL.        *)
(* http_handle and dns_task of crates/app/src/wifi/mod.rs are modelled as  *)
(* processes of their own, with the specifications SpecHttp and SpecDns.   *)
(* Bytes are integers 0..255; Rust indices are 0-based, TLA+ sequences     *)
(* 1-based, so data[i] of the source is data[i + 1] here.                  *)
(***************************************************************************)
EXTENDS Integers, Sequences, FiniteSets, TLC

VARIABLES
    variant,        \* "none" | "direct" (stream_camera) | "queue" (cam_task)
    pc,             \* position of the running function
    holder,         \* where the Camera + DmaRxStreamBuf pair is
    transfers,      \* number of transfers started by receive and not yet stopped
    sessions,       \* number of running stream_camera / cam_task activations
    released,       \* times the running activation gave the pair back to its caller
    skip_n,         \* dummy transfers skipped so far in this burst (for _ in 0..2)
    data,           \* the chunk returned by the last peek_until_eof
    eof,            \* the eof flag returned with it
    i,              \* scan index into data
    found_start,    \* in_frame
    buf_len,        \* write cursor (stream_camera)
    frame_buffer,   \* fixed buffer (stream_camera) / Vec<u8> (cam_task)
    chunk,          \* cam_task: the Vec taken out of frame_buffer, awaiting send
    chan,           \* CAM_CHANNEL contents
    sent,           \* every event cam_task has sent, in order
    consumed,       \* chunks handed to the scanner in this activation, in order
    emitted,        \* every slice passed to on_chunk, in order
    writes,         \* result of each on_chunk call (TRUE = Ok), in order
    received,       \* every event taken off CAM_CHANNEL, in order
    wire,           \* pieces on_chunk has written to the socket in this activation
    spanned,        \* the frame last opened was open when a burst was stopped
    h_pc,           \* http_handle: position in its connection loop
    h_sock,         \* http_handle: "none" | "open" | "closed", the socket of this pass
    request,        \* http_handle: the bytes the connected client sends
    pos,            \* http_handle: bytes of the request read into buffer so far
    attempts,       \* http_handle: the attempts counter of the read loop
    h_out,          \* http_handle: responses written to the socket on this connection
    conns,          \* http_handle: accept calls made so far
    d_pc,           \* dns_task: position in its receive loop
    d_query,        \* dns_task: &buf[..len], the datagram received
    d_resp          \* dns_task: what build_dns_response returned for it

camVars == << variant, pc, holder, transfers, sessions, released, skip_n, data, eof,
              i, found_start, buf_len, frame_buffer, chunk, chan, sent, consumed,
              emitted, writes, received, wire, spanned >>

httpVars == << h_pc, h_sock, request, pos, attempts, h_out, conns >>

dnsVars == << d_pc, d_query, d_resp >>

vars == << camVars, httpVars, dnsVars >>

----------------------------------------------------------------------------
(* Program constants *)

\* buf_len >= 2048 / frame_buffer.len() >= 2048: early-send threshold
ChunkThreshold == 2048
\* Channel<CriticalSectionRawMutex, CamEvent, 5>
ChannelCapacity == 5
\* for _ in 0..2: dummy transfers skipped at the start of every burst
DummyTransfers == 2

SOI0 == 255
SOI1 == 216
EOI0 == 255
EOI1 == 217

(* Bounds of the model *)

\* chunks handed to the scanner per activation
MaxChunks == 3

\* capacities of stream_camera's frame_buffer that are explored
BigCap == ChunkThreshold + 4
Capacities == {1, 4, 6, 7, BigCap}

\* chunks peek_until_eof may return
ChunkA == << 170, 255, 216, 17, 34 >>
ChunkB == << 51, 255, 217, 187 >>
ChunkC == << 255, 216, 1, 2, 3, 255, 217 >>
SmallChunks == { << >>, << 255 >>, << 216 >>, << 217 >>, ChunkA, ChunkB, ChunkC }
\* long runs of plain bytes, drawn only at the positions LongSlots of an
\* activation that can hold ChunkThreshold bytes: between ChunkA and ChunkB,
\* LongChunk makes a frame of ChunkThreshold + 3 bytes (cut by the early send),
\* NearChunk one of ChunkThreshold + 1 bytes (the longest that is not cut)
LongChunk == [k \in 1..(ChunkThreshold - 4) |-> 0]
NearChunk == [k \in 1..(ChunkThreshold - 6) |-> 0]
LongSlots == {2}
\* what a peek of a dummy transfer may return: nothing, or a whole frame
SkipMenu == { << >>, ChunkC }

\* the chunks the n-th peek of an activation may return
ChunkMenu(n, long) ==
    SmallChunks \cup
    (IF n \in LongSlots /\ long THEN {LongChunk, NearChunk} ELSE {})

----------------------------------------------------------------------------
(* Helpers *)

\* (mutant) a D8 that opens a chunk is taken for the second half of a start
\* marker cut by the chunk boundary
IsSOICarry(d, k) ==
    \/ k = 0 /\ Len(d) >= 1 /\ d[1] = SOI1
    \/ k + 1 < Len(d) /\ d[k + 1] = SOI0 /\ d[k + 2] = SOI1
\* (mutant) only the first marker byte is compared
IsSOIFirstByte(d, k) == k + 1 < Len(d) /\ d[k + 1] = SOI0
\* i + 1 < len && data[i] == 0xFF && data[i + 1] == 0xD8
IsSOI(d, k) == k + 1 < Len(d) /\ d[k + 1] = SOI0 /\ d[k + 2] = SOI1
\* i + 1 < len && data[i] == 0xFF && data[i + 1] == 0xD9
IsEOI(d, k) == k + 1 < Len(d) /\ d[k + 1] = EOI0 /\ d[k + 2] = EOI1

\* (mutant) an unchecked index
IndexUnchecked(idx, len) == TRUE
\* the bounds check of an indexing expression buf[idx]
IndexOk(idx, len) == idx < len
\* buf[idx] = b
Put(buf, idx, b) == [buf EXCEPT ![idx + 1] = b]
\* (mutant) the slice ends one byte early: &buf[..n - 1]
SliceShort(buf, n) == SubSeq(buf, 1, n - 1)
\* &buf[..n]
Slice(buf, n) == SubSeq(buf, 1, n)

\* if buf_len < frame_buffer.len()
HasRoom(n, buf) == n < Len(buf)
\* if buf_len >= 2048 / if frame_buffer.len() >= 2048
ReachedChunk(n) == n >= ChunkThreshold

FrameStart == [tag |-> "FrameStart", bytes |-> << >>]
FrameEnd == [tag |-> "FrameEnd", bytes |-> << >>]
Data(b) == [tag |-> "Data", bytes |-> b]

----------------------------------------------------------------------------
(* Initial state: the camera was created by init_cam and is with its owner *)

Init ==
    /\ variant = "none"
    /\ pc = "idle"
    /\ holder = "caller"
    /\ transfers = 0
    /\ sessions = 0
    /\ released = 0
    /\ skip_n = 0
    /\ data = << >>
    /\ eof = FALSE
    /\ i = 0
    /\ found_start = FALSE
    /\ buf_len = 0
    /\ frame_buffer = << >>
    /\ chunk = << >>
    /\ chan = << >>
    /\ sent = << >>
    /\ consumed = << >>
    /\ emitted = << >>
    /\ writes = << >>
    /\ received = << >>
    /\ wire = << >>
    /\ spanned = FALSE
    /\ h_pc = "accept"
    /\ h_sock = "none"
    /\ request = << >>
    /\ pos = 0
    /\ attempts = 0
    /\ h_out = << >>
    /\ conns = 0
    /\ d_pc = "receive"
    /\ d_query = << >>
    /\ d_resp = [tag |-> "None"]

----------------------------------------------------------------------------
(* on_chunk: the multipart streamer *)

\* decimal digits of n, most significant first, as the Content-Length value
RECURSIVE Decimal(_)
Decimal(n) == IF n < 10 THEN << n >> ELSE Append(Decimal(n \div 10), n % 10)

\* the number a digit sequence denotes
RECURSIVE DecimalValue(_)
DecimalValue(ds) ==
    IF ds = << >> THEN 0
    ELSE 10 * DecimalValue(SubSeq(ds, 1, Len(ds) - 1)) + ds[Len(ds)]

\* the response header that opens the multipart/x-mixed-replace stream
ResponseHeader == [kind |-> "response_header", length |-> << >>, bytes |-> << >>]

\* "--frame", Content-Type: image/jpeg, Content-Length: n
PartHeader(n) == [kind |-> "part_header", length |-> Decimal(n), bytes |-> << >>]

\* the bytes of the slice, as they are
Body(slice) == [kind |-> "body", length |-> << >>, bytes |-> slice]

\* the CRLF that closes a part
Crlf == [kind |-> "crlf", length |-> << >>, bytes |-> << >>]


\* what one call of on_chunk writes when nothing fails: one part
OnChunkPieces(slice) == << PartHeader(Len(slice)), Body(slice), Crlf >>

\* on_chunk(slice).await: Ok after every piece is written; Err as soon as one
\* write fails, the pieces before it having been written
OnChunk(slice, ok) ==
    LET pieces == OnChunkPieces(slice)
    IN  IF ok
        THEN wire' = wire \o pieces
        ELSE \E n \in 0..(Len(pieces) - 1) : wire' = wire \o SubSeq(pieces, 1, n)

----------------------------------------------------------------------------
(* stream_camera *)

\* entry: the caller moves camera and dma_buf in; buf_len = 0, found_start = false
StreamStart ==
    /\ pc \in {"idle", "done"}
    /\ holder = "caller"
    /\ \E capacity \in Capacities :
          frame_buffer' = [k \in 1..capacity |-> 0]
    /\ variant' = "direct"
    /\ pc' = "receive"
    /\ holder' = "session"
    /\ sessions' = sessions + 1
    /\ released' = 0
    /\ skip_n' = 0
    /\ data' = << >>
    /\ eof' = FALSE
    /\ i' = 0
    /\ found_start' = FALSE
    /\ buf_len' = 0
    /\ chunk' = << >>
    /\ consumed' = << >>
    /\ emitted' = << >>
    /\ writes' = << >>
    /\ UNCHANGED << transfers, chan, sent >>
    /\ wire' = << >>
    /\ spanned' = FALSE
    /\ UNCHANGED received
    /\ UNCHANGED << httpVars, dnsVars >>

\* return (camera, dma_buf) to the caller without an active transfer
StreamReturnIdle ==
    /\ pc' = "done"
    /\ holder' = "caller"
    /\ released' = released + 1
    /\ sessions' = sessions - 1
    /\ UNCHANGED transfers

\* (mutant) the result of on_chunk is ignored and the scan goes on
StreamIgnoreFailure ==
    UNCHANGED << pc, holder, transfers, released, sessions >>

\* return transfer.stop()
StreamReturnStop ==
    /\ pc' = "done"
    /\ holder' = "caller"
    /\ transfers' = transfers - 1
    /\ released' = released + 1
    /\ sessions' = sessions - 1

\* camera.receive(dma_buf): Ok(transfer) or Err((e, cam, buf))
StreamReceive ==
    /\ variant = "direct" /\ pc = "receive"
    /\ \E ok \in BOOLEAN :
          IF ok
          THEN /\ pc' = "skip"
               /\ holder' = "transfer"
               /\ transfers' = transfers + 1
               /\ UNCHANGED << released, sessions >>
          ELSE StreamReturnIdle
    /\ skip_n' = 0
    /\ UNCHANGED << variant, data, eof, i, found_start, buf_len, frame_buffer,
                    chunk, chan, sent, consumed, emitted, writes >>
    /\ UNCHANGED << received, wire, spanned >>
    /\ UNCHANGED << httpVars, dnsVars >>

\* (mutant) one dummy transfer is skipped instead of two: for _ in 0..1
StreamSkipOnce ==
    /\ variant = "direct" /\ pc = "skip"
    /\ \E d \in SkipMenu, e \in BOOLEAN :
          /\ data' = d
          /\ eof' = e
          /\ IF e
             THEN /\ skip_n' = skip_n + 1
                  /\ pc' = "peek"
             ELSE UNCHANGED << skip_n, pc >>
    /\ UNCHANGED << variant, holder, transfers, sessions, released, i,
                    found_start, buf_len, frame_buffer, chunk, chan, sent, consumed,
                    emitted, writes >>
    /\ UNCHANGED << received, wire, spanned >>
    /\ UNCHANGED << httpVars, dnsVars >>

\* one pass of the inner loop of "for _ in 0..2": peek, consume(len), break
\* on eof; the chunk peeked here is not looked at
StreamSkip ==
    /\ variant = "direct" /\ pc = "skip"
    /\ \E d \in SkipMenu, e \in BOOLEAN :
          /\ data' = d
          /\ eof' = e
          /\ IF e
             THEN /\ skip_n' = skip_n + 1
                  /\ pc' = IF skip_n + 1 >= DummyTransfers THEN "peek" ELSE "skip"
             ELSE UNCHANGED << skip_n, pc >>
    /\ UNCHANGED << variant, holder, transfers, sessions, released, i,
                    found_start, buf_len, frame_buffer, chunk, chan, sent, consumed,
                    emitted, writes >>
    /\ UNCHANGED << received, wire, spanned >>
    /\ UNCHANGED << httpVars, dnsVars >>

\* let (data, eof) = transfer.peek_until_eof(); let mut i = 0
StreamPeek ==
    /\ variant = "direct" /\ pc = "peek"
    /\ Len(consumed) < MaxChunks
    /\ \E d \in ChunkMenu(Len(consumed) + 1, Len(frame_buffer) >= ChunkThreshold),
          e \in BOOLEAN :
          /\ data' = d
          /\ eof' = e
          /\ consumed' = Append(consumed, d)
    /\ i' = 0
    /\ pc' = "scan"
    /\ UNCHANGED << variant, holder, transfers, sessions, released, skip_n,
                    found_start, buf_len, frame_buffer, chunk, chan, sent,
                    emitted, writes >>
    /\ UNCHANGED << received, wire, spanned >>
    /\ UNCHANGED << httpVars, dnsVars >>


\* !found_start, FF D8 at i
StreamFindStart ==
    /\ variant = "direct" /\ pc = "scan" /\ i < Len(data)
    /\ ~found_start
    /\ IsSOI(data, i)
    /\ found_start' = TRUE
    /\ IF ~IndexOk(0, Len(frame_buffer))
       THEN /\ pc' = "panic"
            /\ buf_len' = 0
            /\ UNCHANGED << frame_buffer, i >>
       ELSE IF ~IndexOk(1, Len(frame_buffer))
       THEN /\ pc' = "panic"
            /\ buf_len' = 0
            /\ frame_buffer' = Put(frame_buffer, 0, SOI0)
            /\ UNCHANGED i
       ELSE /\ frame_buffer' = Put(Put(frame_buffer, 0, SOI0), 1, SOI1)
            /\ buf_len' = 2
            /\ i' = i + 2
            /\ UNCHANGED pc
    /\ UNCHANGED << variant, holder, transfers, sessions, released, skip_n, data,
                    eof, chunk, chan, sent, consumed, emitted, writes >>
    /\ spanned' = FALSE
    /\ UNCHANGED << received, wire >>
    /\ UNCHANGED << httpVars, dnsVars >>

\* !found_start, no FF D8 at i
StreamSkipByte ==
    /\ variant = "direct" /\ pc = "scan" /\ i < Len(data)
    /\ ~found_start
    /\ ~IsSOI(data, i)
    /\ i' = i + 1
    /\ UNCHANGED << variant, pc, holder, transfers, sessions, released, skip_n,
                    data, eof, found_start, buf_len, frame_buffer, chunk, chan,
                    sent, consumed, emitted, writes >>
    /\ UNCHANGED << received, wire, spanned >>
    /\ UNCHANGED << httpVars, dnsVars >>


\* found_start, FF D9 at i: the marker is stored and on_chunk is called with
\* the frame; the function waits at the .await for the write to finish
StreamFindEnd ==
    /\ variant = "direct" /\ pc = "scan" /\ i < Len(data)
    /\ found_start
    /\ IsEOI(data, i)
    /\ IF ~IndexOk(buf_len, Len(frame_buffer))
       THEN /\ pc' = "panic"
            /\ UNCHANGED << frame_buffer, buf_len, emitted >>
       ELSE IF ~IndexOk(buf_len + 1, Len(frame_buffer))
       THEN /\ pc' = "panic"
            /\ frame_buffer' = Put(frame_buffer, buf_len, EOI0)
            /\ UNCHANGED << buf_len, emitted >>
       ELSE /\ frame_buffer' = Put(Put(frame_buffer, buf_len, EOI0), buf_len + 1, EOI1)
            /\ buf_len' = buf_len + 2
            /\ emitted' = Append(emitted, Slice(frame_buffer', buf_len + 2))
            /\ pc' = "await_end"
    /\ UNCHANGED << i, found_start, writes, wire, holder, transfers, sessions,
                    released >>
    /\ UNCHANGED << variant, skip_n, data, eof, chunk, chan, sent, consumed >>
    /\ UNCHANGED << received, spanned >>
    /\ UNCHANGED << httpVars, dnsVars >>

\* on_chunk(&frame_buffer[..buf_len]).await has returned after FF D9: go on
\* behind the marker with the frame closed, or return transfer.stop()
StreamEndSent ==
    /\ variant = "direct" /\ pc = "await_end"
    /\ \E ok \in BOOLEAN :
          /\ writes' = Append(writes, ok)
          /\ OnChunk(emitted[Len(emitted)], ok)
          /\ IF ok
             THEN /\ found_start' = FALSE
                  /\ buf_len' = 0
                  /\ i' = i + 2
                  /\ pc' = "scan"
                  /\ UNCHANGED << holder, transfers, sessions, released >>
             ELSE /\ StreamReturnStop
                  /\ UNCHANGED << found_start, buf_len, i >>
    /\ UNCHANGED << variant, skip_n, data, eof, frame_buffer, chunk, chan, sent,
                    consumed, emitted >>
    /\ UNCHANGED << received, spanned >>
    /\ UNCHANGED << httpVars, dnsVars >>

\* found_start, no FF D9 at i: store the byte or drop it; at 2 KB on_chunk is
\* called with the buffer and the function waits at the .await
StreamAppend ==
    /\ variant = "direct" /\ pc = "scan" /\ i < Len(data)
    /\ found_start
    /\ ~IsEOI(data, i)
    /\ LET room == HasRoom(buf_len, frame_buffer)
           n == IF room THEN buf_len + 1 ELSE buf_len
       IN  /\ frame_buffer' = IF room THEN Put(frame_buffer, buf_len, data[i + 1])
                                      ELSE frame_buffer
           /\ i' = i + 1
           /\ buf_len' = n
           /\ IF ReachedChunk(n)
              THEN /\ emitted' = Append(emitted, Slice(frame_buffer', n))
                   /\ pc' = "await_chunk"
              ELSE UNCHANGED << emitted, pc >>
    /\ UNCHANGED << writes, wire, holder, transfers, sessions, released >>
    /\ UNCHANGED << variant, skip_n, data, eof, found_start, chunk, chan, sent,
                    consumed >>
    /\ UNCHANGED << received, spanned >>
    /\ UNCHANGED << httpVars, dnsVars >>

\* on_chunk(&frame_buffer[..buf_len]).await has returned after the early
\* send: buf_len = 0 and the scan goes on, or return transfer.stop()
StreamChunkSent ==
    /\ variant = "direct" /\ pc = "await_chunk"
    /\ \E ok \in BOOLEAN :
          /\ writes' = Append(writes, ok)
          /\ OnChunk(emitted[Len(emitted)], ok)
          /\ IF ok
             THEN /\ buf_len' = 0
                  /\ pc' = "scan"
                  /\ UNCHANGED << holder, transfers, sessions, released >>
             ELSE /\ StreamReturnStop
                  /\ UNCHANGED buf_len
    /\ UNCHANGED << variant, skip_n, data, eof, i, found_start, frame_buffer,
                    chunk, chan, sent, consumed, emitted >>
    /\ UNCHANGED << received, spanned >>
    /\ UNCHANGED << httpVars, dnsVars >>

\* (mutant) on eof the loop goes back to receive without stopping the transfer
StreamConsumeNoStop ==
    /\ variant = "direct" /\ pc = "scan" /\ i >= Len(data)
    /\ pc' = IF eof THEN "receive" ELSE "peek"
    /\ UNCHANGED << variant, holder, transfers, sessions, released, skip_n, data,
                    eof, i, found_start, buf_len, frame_buffer, chunk, chan, sent,
                    consumed, emitted, writes >>
    /\ UNCHANGED << received, wire, spanned >>
    /\ UNCHANGED << httpVars, dnsVars >>

\* (mutant) an empty chunk with eof is taken for the end of the stream
StreamConsumeEndsOnEmpty ==
    /\ variant = "direct" /\ pc = "scan" /\ i >= Len(data)
    /\ IF data = << >> /\ eof
       THEN StreamReturnStop
       ELSE /\ pc' = IF eof THEN "stop" ELSE "peek"
            /\ UNCHANGED << holder, transfers, sessions, released >>
    /\ UNCHANGED << variant, skip_n, data, eof, i, found_start, buf_len,
                    frame_buffer, chunk, chan, sent, consumed, emitted, writes >>
    /\ UNCHANGED << received, wire, spanned >>
    /\ UNCHANGED << httpVars, dnsVars >>


\* end of "while i < len": transfer.consume(len); if eof { break }
StreamConsume ==
    /\ variant = "direct" /\ pc = "scan" /\ i >= Len(data)
    /\ pc' = IF eof THEN "stop" ELSE "peek"
    /\ UNCHANGED << variant, holder, transfers, sessions, released, skip_n, data,
                    eof, i, found_start, buf_len, frame_buffer, chunk, chan, sent,
                    consumed, emitted, writes >>
    /\ UNCHANGED << received, wire, spanned >>
    /\ UNCHANGED << httpVars, dnsVars >>


\* (camera, dma_buf) = transfer.stop(); Timer::after(10 ms)
StreamStop ==
    /\ variant = "direct" /\ pc = "stop"
    /\ transfers' = transfers - 1
    /\ holder' = "session"
    /\ pc' = "receive"
    /\ UNCHANGED << variant, sessions, released, skip_n, data, eof, i, found_start,
                    buf_len, frame_buffer, chunk, chan, sent, consumed, emitted,
                    writes >>
    /\ spanned' = (spanned \/ found_start)
    /\ UNCHANGED << received, wire >>
    /\ UNCHANGED << httpVars, dnsVars >>

StreamNext ==
    \/ StreamStart
    \/ StreamReceive
    \/ StreamSkip
    \/ StreamPeek
    \/ StreamFindStart
    \/ StreamSkipByte
    \/ StreamFindEnd
    \/ StreamEndSent
    \/ StreamAppend
    \/ StreamChunkSent
    \/ StreamConsume
    \/ StreamStop

----------------------------------------------------------------------------
(* cam_task *)

\* the task is spawned with camera and dma_buf moved in; frame_buffer is an
\* empty Vec, found_start = false
CamStart ==
    /\ pc \in {"idle", "done"}
    /\ holder = "caller"
    /\ variant' = "queue"
    /\ pc' = "receive"
    /\ holder' = "session"
    /\ sessions' = sessions + 1
    /\ released' = 0
    /\ skip_n' = 0
    /\ data' = << >>
    /\ eof' = FALSE
    /\ i' = 0
    /\ found_start' = FALSE
    /\ buf_len' = 0
    /\ frame_buffer' = << >>
    /\ chunk' = << >>
    /\ consumed' = << >>
    /\ emitted' = << >>
    /\ writes' = << >>
    /\ UNCHANGED << transfers, chan, sent >>
    /\ wire' = << >>
    /\ spanned' = FALSE
    /\ UNCHANGED received
    /\ UNCHANGED << httpVars, dnsVars >>

\* camera.receive(dma_buf): Ok(transfer), or Err((e, _cam, _buf)) => return,
\* which drops the camera and the buffer with the task
CamReceive ==
    /\ variant = "queue" /\ pc = "receive"
    /\ \E ok \in BOOLEAN :
          IF ok
          THEN /\ pc' = "skip"
               /\ holder' = "transfer"
               /\ transfers' = transfers + 1
               /\ UNCHANGED sessions
          ELSE /\ pc' = "done"
               /\ holder' = "dropped"
               /\ sessions' = sessions - 1
               /\ UNCHANGED transfers
    /\ skip_n' = 0
    /\ UNCHANGED << variant, released, data, eof, i, found_start, buf_len,
                    frame_buffer, chunk, chan, sent, consumed, emitted, writes >>
    /\ UNCHANGED << received, wire, spanned >>
    /\ UNCHANGED << httpVars, dnsVars >>

\* one pass of the inner loop of "for _ in 0..2": peek, consume(len), break
\* on eof; the chunk peeked here is not looked at
CamSkip ==
    /\ variant = "queue" /\ pc = "skip"
    /\ \E d \in SkipMenu, e \in BOOLEAN :
          /\ data' = d
          /\ eof' = e
          /\ IF e
             THEN /\ skip_n' = skip_n + 1
                  /\ pc' = IF skip_n + 1 >= DummyTransfers THEN "peek" ELSE "skip"
             ELSE UNCHANGED << skip_n, pc >>
    /\ UNCHANGED << variant, holder, transfers, sessions, released, i,
                    found_start, buf_len, frame_buffer, chunk, chan, sent, consumed,
                    emitted, writes >>
    /\ UNCHANGED << received, wire, spanned >>
    /\ UNCHANGED << httpVars, dnsVars >>

\* let (data, eof) = transfer.peek_until_eof(); let mut i = 0
CamPeek ==
    /\ variant = "queue" /\ pc = "peek"
    /\ Len(consumed) < MaxChunks
    /\ \E d \in ChunkMenu(Len(consumed) + 1, TRUE), e \in BOOLEAN :
          /\ data' = d
          /\ eof' = e
          /\ consumed' = Append(consumed, d)
    /\ i' = 0
    /\ pc' = "scan"
    /\ UNCHANGED << variant, holder, transfers, sessions, released, skip_n,
                    found_start, buf_len, frame_buffer, chunk, chan, sent,
                    emitted, writes >>
    /\ UNCHANGED << received, wire, spanned >>
    /\ UNCHANGED << httpVars, dnsVars >>

\* (mutant) the capacity the comment above CAM_CHANNEL names, 10, instead of
\* the declared 5
CanSendTen(q) == Len(q) < 2 * ChannelCapacity

\* CAM_CHANNEL.send(ev).await completes only while the channel has a free slot
CanSend(q) == Len(q) < ChannelCapacity

\* !found_start, FF D8 at i: found_start = true; frame_buffer.clear(); then the
\* task awaits the send of FrameStart
CamFindStart ==
    /\ variant = "queue" /\ pc = "scan" /\ i < Len(data)
    /\ ~found_start
    /\ IsSOI(data, i)
    /\ found_start' = TRUE
    /\ frame_buffer' = << >>
    /\ pc' = "send_start"
    /\ UNCHANGED << variant, holder, transfers, sessions, released, skip_n, data,
                    eof, i, buf_len, chunk, chan, sent, consumed, emitted, writes >>
    /\ spanned' = FALSE
    /\ UNCHANGED << received, wire >>
    /\ UNCHANGED << httpVars, dnsVars >>

\* (mutant) FrameStart is sent but FF D8 is not put into the Vec
CamSendStartNoMarker ==
    /\ variant = "queue" /\ pc = "send_start"
    /\ CanSend(chan)
    /\ chan' = Append(chan, FrameStart)
    /\ sent' = Append(sent, FrameStart)
    /\ UNCHANGED frame_buffer
    /\ i' = i + 2
    /\ pc' = "scan"
    /\ UNCHANGED << variant, holder, transfers, sessions, released, skip_n, data,
                    eof, found_start, buf_len, chunk, consumed, emitted, writes >>
    /\ UNCHANGED << received, wire, spanned >>
    /\ UNCHANGED << httpVars, dnsVars >>

\* send(FrameStart) completes; frame_buffer.extend_from_slice(&[0xFF, 0xD8]); i += 2
CamSendStart ==
    /\ variant = "queue" /\ pc = "send_start"
    /\ CanSend(chan)
    /\ chan' = Append(chan, FrameStart)
    /\ sent' = Append(sent, FrameStart)
    /\ frame_buffer' = frame_buffer \o << SOI0, SOI1 >>
    /\ i' = i + 2
    /\ pc' = "scan"
    /\ UNCHANGED << variant, holder, transfers, sessions, released, skip_n, data,
                    eof, found_start, buf_len, chunk, consumed, emitted, writes >>
    /\ UNCHANGED << received, wire, spanned >>
    /\ UNCHANGED << httpVars, dnsVars >>

\* !found_start, no FF D8 at i
CamSkipByte ==
    /\ variant = "queue" /\ pc = "scan" /\ i < Len(data)
    /\ ~found_start
    /\ ~IsSOI(data, i)
    /\ i' = i + 1
    /\ UNCHANGED << variant, pc, holder, transfers, sessions, released, skip_n,
                    data, eof, found_start, buf_len, frame_buffer, chunk, chan,
                    sent, consumed, emitted, writes >>
    /\ UNCHANGED << received, wire, spanned >>
    /\ UNCHANGED << httpVars, dnsVars >>

\* (mutant) the Vec is cloned for sending instead of taken
CamFindEndClone ==
    /\ variant = "queue" /\ pc = "scan" /\ i < Len(data)
    /\ found_start
    /\ IsEOI(data, i)
    /\ chunk' = frame_buffer \o << EOI0, EOI1 >>
    /\ frame_buffer' = frame_buffer \o << EOI0, EOI1 >>
    /\ pc' = "send_last"
    /\ UNCHANGED << variant, holder, transfers, sessions, released, skip_n, data,
                    eof, i, found_start, buf_len, chan, sent, consumed, emitted,
                    writes >>
    /\ UNCHANGED << received, wire, spanned >>
    /\ UNCHANGED << httpVars, dnsVars >>

\* found_start, FF D9 at i: push both marker bytes, take the Vec if non-empty
CamFindEnd ==
    /\ variant = "queue" /\ pc = "scan" /\ i < Len(data)
    /\ found_start
    /\ IsEOI(data, i)
    /\ LET full == frame_buffer \o << EOI0, EOI1 >>
       IN  IF full # << >>
           THEN /\ chunk' = full
                /\ frame_buffer' = << >>
                /\ pc' = "send_last"
           ELSE /\ frame_buffer' = full
                /\ pc' = "send_end"
                /\ UNCHANGED chunk
    /\ UNCHANGED << variant, holder, transfers, sessions, released, skip_n, data,
                    eof, i, found_start, buf_len, chan, sent, consumed, emitted,
                    writes >>
    /\ UNCHANGED << received, wire, spanned >>
    /\ UNCHANGED << httpVars, dnsVars >>

\* (mutant) try_send in place of send: the event is lost when the channel is full
CamSendLastTry ==
    /\ variant = "queue" /\ pc = "send_last"
    /\ IF CanSend(chan)
       THEN /\ chan' = Append(chan, Data(chunk))
            /\ sent' = Append(sent, Data(chunk))
       ELSE UNCHANGED << chan, sent >>
    /\ chunk' = << >>
    /\ pc' = "send_end"
    /\ UNCHANGED << variant, holder, transfers, sessions, released, skip_n, data,
                    eof, i, found_start, buf_len, frame_buffer, consumed, emitted,
                    writes >>
    /\ UNCHANGED << received, wire, spanned >>
    /\ UNCHANGED << httpVars, dnsVars >>

\* send(Data(chunk)) of the end of the frame completes
CamSendLast ==
    /\ variant = "queue" /\ pc = "send_last"
    /\ CanSend(chan)
    /\ chan' = Append(chan, Data(chunk))
    /\ sent' = Append(sent, Data(chunk))
    /\ chunk' = << >>
    /\ pc' = "send_end"
    /\ UNCHANGED << variant, holder, transfers, sessions, released, skip_n, data,
                    eof, i, found_start, buf_len, frame_buffer, consumed, emitted,
                    writes >>
    /\ UNCHANGED << received, wire, spanned >>
    /\ UNCHANGED << httpVars, dnsVars >>

\* (mutant) found_start is not cleared after FrameEnd
CamSendEndKeepsOpen ==
    /\ variant = "queue" /\ pc = "send_end"
    /\ CanSend(chan)
    /\ chan' = Append(chan, FrameEnd)
    /\ sent' = Append(sent, FrameEnd)
    /\ UNCHANGED found_start
    /\ i' = i + 2
    /\ pc' = "scan"
    /\ UNCHANGED << variant, holder, transfers, sessions, released, skip_n, data,
                    eof, buf_len, frame_buffer, chunk, consumed, emitted, writes >>
    /\ UNCHANGED << received, wire, spanned >>
    /\ UNCHANGED << httpVars, dnsVars >>

\* send(FrameEnd) completes; found_start = false; i += 2
CamSendEnd ==
    /\ variant = "queue" /\ pc = "send_end"
    /\ CanSend(chan)
    /\ chan' = Append(chan, FrameEnd)
    /\ sent' = Append(sent, FrameEnd)
    /\ found_start' = FALSE
    /\ i' = i + 2
    /\ pc' = "scan"
    /\ UNCHANGED << variant, holder, transfers, sessions, released, skip_n, data,
                    eof, buf_len, frame_buffer, chunk, consumed, emitted, writes >>
    /\ UNCHANGED << received, wire, spanned >>
    /\ UNCHANGED << httpVars, dnsVars >>

\* found_start, no FF D9 at i: push the byte; at 2048 bytes take the Vec to send
CamAppend ==
    /\ variant = "queue" /\ pc = "scan" /\ i < Len(data)
    /\ found_start
    /\ ~IsEOI(data, i)
    /\ i' = i + 1
    /\ LET pushed == Append(frame_buffer, data[i + 1])
       IN  IF ReachedChunk(Len(pushed))
           THEN /\ chunk' = pushed
                /\ frame_buffer' = << >>
                /\ pc' = "send_chunk"
           ELSE /\ frame_buffer' = pushed
                /\ UNCHANGED << chunk, pc >>
    /\ UNCHANGED << variant, holder, transfers, sessions, released, skip_n, data,
                    eof, found_start, buf_len, chan, sent, consumed, emitted,
                    writes >>
    /\ UNCHANGED << received, wire, spanned >>
    /\ UNCHANGED << httpVars, dnsVars >>

\* send(Data(chunk)) of an early 2 KB piece completes
CamSendChunk ==
    /\ variant = "queue" /\ pc = "send_chunk"
    /\ CanSend(chan)
    /\ chan' = Append(chan, Data(chunk))
    /\ sent' = Append(sent, Data(chunk))
    /\ chunk' = << >>
    /\ pc' = "scan"
    /\ UNCHANGED << variant, holder, transfers, sessions, released, skip_n, data,
                    eof, i, found_start, buf_len, frame_buffer, consumed, emitted,
                    writes >>
    /\ UNCHANGED << received, wire, spanned >>
    /\ UNCHANGED << httpVars, dnsVars >>

\* end of "while i < len": transfer.consume(len); if eof { break }
CamConsume ==
    /\ variant = "queue" /\ pc = "scan" /\ i >= Len(data)
    /\ pc' = IF eof THEN "stop" ELSE "peek"
    /\ UNCHANGED << variant, holder, transfers, sessions, released, skip_n, data,
                    eof, i, found_start, buf_len, frame_buffer, chunk, chan, sent,
                    consumed, emitted, writes >>
    /\ UNCHANGED << received, wire, spanned >>
    /\ UNCHANGED << httpVars, dnsVars >>

\* (camera, dma_buf) = transfer.stop(); Timer::after(1000 ms)
CamStop ==
    /\ variant = "queue" /\ pc = "stop"
    /\ transfers' = transfers - 1
    /\ holder' = "session"
    /\ pc' = "receive"
    /\ UNCHANGED << variant, sessions, released, skip_n, data, eof, i, found_start,
                    buf_len, frame_buffer, chunk, chan, sent, consumed, emitted,
                    writes >>
    /\ spanned' = (spanned \/ found_start)
    /\ UNCHANGED << received, wire >>
    /\ UNCHANGED << httpVars, dnsVars >>

\* the delivery side takes the oldest event off CAM_CHANNEL
Deliver ==
    /\ chan # << >>
    /\ chan' = Tail(chan)
    /\ UNCHANGED << variant, pc, holder, transfers, sessions, released, skip_n,
                    data, eof, i, found_start, buf_len, frame_buffer, chunk, sent,
                    consumed, emitted, writes >>
    /\ received' = Append(received, Head(chan))
    /\ UNCHANGED << wire, spanned >>
    /\ UNCHANGED << httpVars, dnsVars >>

CamNext ==
    \/ CamStart
    \/ CamReceive
    \/ CamSkip
    \/ CamPeek
    \/ CamFindStart
    \/ CamSendStart
    \/ CamSkipByte
    \/ CamFindEnd
    \/ CamSendLast
    \/ CamSendEnd
    \/ CamAppend
    \/ CamSendChunk
    \/ CamConsume
    \/ CamStop
    \/ Deliver

Next == StreamNext \/ CamNext

----------------------------------------------------------------------------
(* http_handle (crates/app/src/wifi/mod.rs): bytes are ASCII codes *)

\* let mut buffer = [0u8; 2048]
BufferLen == 2048
\* let max_attempts = 20
MaxAttempts == 20
\* let mut rx_buffer = [0; 1536]: the most one socket.read can return
RxBufferLen == 1536
\* connections followed per behaviour
MaxConns == 2

\* "\r\n\r\n"
EndOfHeaders ==
    << 13, 10, 13, 10 >>
\* "GET /hotspot-detect.html"
PatHotspotPage ==
    << 71, 69, 84, 32, 47, 104, 111, 116, 115, 112, 111, 116, 45, 100, 101,
       116, 101, 99, 116, 46, 104, 116, 109, 108 >>
\* "GET /snapshot"
PatSnapshot ==
    << 71, 69, 84, 32, 47, 115, 110, 97, 112, 115, 104, 111, 116 >>
\* "GET /portal"
PatPortal ==
    << 71, 69, 84, 32, 47, 112, 111, 114, 116, 97, 108 >>
\* "GET /index"
PatIndex ==
    << 71, 69, 84, 32, 47, 105, 110, 100, 101, 120 >>
\* "GET / "
PatRoot ==
    << 71, 69, 84, 32, 47, 32 >>
\* "generate_204"
PatGenerate204 ==
    << 103, 101, 110, 101, 114, 97, 116, 101, 95, 50, 48, 52 >>
\* "hotspot-detect"
PatHotspotDetect ==
    << 104, 111, 116, 115, 112, 111, 116, 45, 100, 101, 116, 101, 99, 116 >>
\* "connecttest"
PatConnectTest ==
    << 99, 111, 110, 110, 101, 99, 116, 116, 101, 115, 116 >>
\* "success.txt"
PatSuccessTxt ==
    << 115, 117, 99, 99, 101, 115, 115, 46, 116, 120, 116 >>

\* "GET /hotspot-detect.html HTTP/1.1\r\n\r\n"
ReqHotspot ==
    << 71, 69, 84, 32, 47, 104, 111, 116, 115, 112, 111, 116, 45, 100, 101,
       116, 101, 99, 116, 46, 104, 116, 109, 108, 32, 72, 84, 84, 80, 47,
       49, 46, 49, 13, 10, 13, 10 >>
\* "GET /snapshot HTTP/1.1\r\n\r\n"
ReqSnapshot ==
    << 71, 69, 84, 32, 47, 115, 110, 97, 112, 115, 104, 111, 116, 32, 72, 84,
       84, 80, 47, 49, 46, 49, 13, 10, 13, 10 >>
\* "GET /stream HTTP/1.1\r\n\r\n"
ReqStream ==
    << 71, 69, 84, 32, 47, 115, 116, 114, 101, 97, 109, 32, 72, 84, 84, 80,
       47, 49, 46, 49, 13, 10, 13, 10 >>
\* "GET / HTTP/1.1\r\n\r\n"
ReqRoot ==
    << 71, 69, 84, 32, 47, 32, 72, 84, 84, 80, 47, 49, 46, 49, 13, 10, 13, 10
       >>
\* "GET /portal HTTP/1.1\r\n\r\n"
ReqPortal ==
    << 71, 69, 84, 32, 47, 112, 111, 114, 116, 97, 108, 32, 72, 84, 84, 80,
       47, 49, 46, 49, 13, 10, 13, 10 >>
\* "GET /index.html HTTP/1.1\r\n\r\n"
ReqIndex ==
    << 71, 69, 84, 32, 47, 105, 110, 100, 101, 120, 46, 104, 116, 109, 108,
       32, 72, 84, 84, 80, 47, 49, 46, 49, 13, 10, 13, 10 >>
\* "GET /generate_204 HTTP/1.1\r\n\r\n"
ReqGenerate204 ==
    << 71, 69, 84, 32, 47, 103, 101, 110, 101, 114, 97, 116, 101, 95, 50, 48,
       52, 32, 72, 84, 84, 80, 47, 49, 46, 49, 13, 10, 13, 10 >>
\* "HEAD /hotspot-detect.html HTTP/1.1\r\n\r\n"
ReqHeadHotspot ==
    << 72, 69, 65, 68, 32, 47, 104, 111, 116, 115, 112, 111, 116, 45, 100,
       101, 116, 101, 99, 116, 46, 104, 116, 109, 108, 32, 72, 84, 84, 80,
       47, 49, 46, 49, 13, 10, 13, 10 >>
\* "GET /connecttest.txt HTTP/1.1\r\n\r\n"
ReqConnectTest ==
    << 71, 69, 84, 32, 47, 99, 111, 110, 110, 101, 99, 116, 116, 101, 115,
       116, 46, 116, 120, 116, 32, 72, 84, 84, 80, 47, 49, 46, 49, 13, 10,
       13, 10 >>
\* "GET /success.txt HTTP/1.1\r\n\r\n"
ReqSuccessTxt ==
    << 71, 69, 84, 32, 47, 115, 117, 99, 99, 101, 115, 115, 46, 116, 120, 116,
       32, 72, 84, 84, 80, 47, 49, 46, 49, 13, 10, 13, 10 >>
\* "GET /favicon.ico HTTP/1.1\r\n\r\n"
ReqFavicon ==
    << 71, 69, 84, 32, 47, 102, 97, 118, 105, 99, 111, 110, 46, 105, 99, 111,
       32, 72, 84, 84, 80, 47, 49, 46, 49, 13, 10, 13, 10 >>
\* "GET /portal HTTP/1.1\r\n"
ReqUnfinished ==
    << 71, 69, 84, 32, 47, 112, 111, 114, 116, 97, 108, 32, 72, 84, 84, 80,
       47, 49, 46, 49, 13, 10 >>
\* a request that fills the buffer without ever ending its headers
ReqLong == [k \in 1..(BufferLen + 2) |-> 65]

Requests == { ReqHotspot, ReqSnapshot, ReqStream, ReqRoot,
              ReqPortal, ReqIndex, ReqGenerate204, ReqHeadHotspot,
              ReqConnectTest, ReqSuccessTxt, ReqFavicon, ReqUnfinished,
              ReqLong }

Min2(a, b) == IF a <= b THEN a ELSE b

\* request.contains(pat)
Contains(s, pat) ==
    \E k \in 0..(Len(s) - Len(pat)) : SubSeq(s, k + 1, k + Len(pat)) = pat

\* &buffer[..pos]
Buffered == SubSeq(request, 1, pos)

\* fn is_captive_portal_check
is_captive_portal_check(r) ==
    \/ Contains(r, PatGenerate204)
    \/ Contains(r, PatHotspotDetect)
    \/ Contains(r, PatConnectTest)
    \/ Contains(r, PatSuccessTxt)

\* the if / else-if chain over the request: what the chosen branch writes
Route(r) ==
    IF Contains(r, PatHotspotPage) THEN << "simple_portal_page" >>
    ELSE IF Contains(r, PatSnapshot) THEN << >>
    ELSE IF Contains(r, PatPortal) \/ Contains(r, PatIndex) \/ Contains(r, PatRoot)
         THEN << "portal_page" >>
    ELSE IF is_captive_portal_check(r) THEN << "redirect_to_portal" >>
    ELSE << "redirect_to_portal" >>

\* socket.accept(port 80).await; on Err the loop continues with a new socket
HttpAccept ==
    /\ h_pc = "accept"
    /\ conns < MaxConns
    /\ conns' = conns + 1
    /\ pos' = 0
    /\ attempts' = 0
    /\ h_out' = << >>
    /\ \E ok \in BOOLEAN :
          IF ok
          THEN /\ \E r \in Requests : request' = r
               /\ h_sock' = "open"
               /\ h_pc' = "read"
          ELSE /\ request' = << >>
               /\ h_sock' = "none"
               /\ h_pc' = "accept"
    /\ UNCHANGED << camVars, dnsVars >>

\* one pass of "while attempts < max_attempts": socket.read(&mut buffer[pos..])
\* gives Ok(0), Ok(len) or Err
HttpRead ==
    /\ h_pc = "read"
    /\ IF attempts < MaxAttempts
       THEN \/ \* Ok(0): break
               /\ h_pc' = "check"
               /\ UNCHANGED << pos, attempts, h_sock >>
            \/ \* Ok(len)
               \E len \in { 1, Min2(RxBufferLen,
                                    Min2(Len(request) - pos, BufferLen - pos)) } :
                  /\ len >= 1
                  /\ pos + len <= Len(request)
                  /\ pos' = pos + len
                  /\ IF Contains(SubSeq(request, 1, pos + len), EndOfHeaders)
                     THEN h_pc' = "check" /\ UNCHANGED attempts
                     ELSE IF pos + len >= BufferLen
                     THEN h_pc' = "check" /\ UNCHANGED attempts
                     ELSE h_pc' = "read" /\ attempts' = 0 + 1
                  /\ UNCHANGED h_sock
            \/ \* Err(e): break with what was read; with nothing read,
               \* socket.close(), Timer 10 ms and continue, which goes on
               \* with the next pass of this while loop
               /\ IF pos > 0
                  THEN h_pc' = "check" /\ UNCHANGED h_sock
                  ELSE h_pc' = "read" /\ h_sock' = "closed"
               /\ UNCHANGED << pos, attempts >>
       ELSE /\ h_pc' = "check"
            /\ UNCHANGED << pos, attempts, h_sock >>
    /\ UNCHANGED << request, h_out, conns >>
    /\ UNCHANGED << camVars, dnsVars >>

\* if pos == 0 { socket.close(); continue }
HttpCheck ==
    /\ h_pc = "check"
    /\ IF pos = 0
       THEN h_pc' = "accept" /\ h_sock' = "closed"
       ELSE h_pc' = "route" /\ UNCHANGED h_sock
    /\ UNCHANGED << request, pos, attempts, h_out, conns >>
    /\ UNCHANGED << camVars, dnsVars >>

\* the routing chain; the result of socket.write is discarded
HttpRoute ==
    /\ h_pc = "route"
    /\ \E ok \in BOOLEAN :
          h_out' = IF ok THEN Route(Buffered) ELSE << >>
    /\ h_pc' = "flush"
    /\ UNCHANGED << h_sock, request, pos, attempts, conns >>
    /\ UNCHANGED << camVars, dnsVars >>

\* socket.flush().await (its error is only logged); Timer 10 ms; socket.close()
HttpFlushClose ==
    /\ h_pc = "flush"
    /\ h_sock' = "closed"
    /\ h_pc' = "accept"
    /\ UNCHANGED << request, pos, attempts, h_out, conns >>
    /\ UNCHANGED << camVars, dnsVars >>

HttpNext ==
    \/ HttpAccept
    \/ HttpRead
    \/ HttpCheck
    \/ HttpRoute
    \/ HttpFlushClose

SpecHttp == Init /\ [][HttpNext]_vars


----------------------------------------------------------------------------
(* dns_task: the DNS responder that resolves every name to the access point *)

\* const ADDR: (u8, u8, u8, u8)
ADDR == << 11, 0, 0, 1 >>
\* heapless::Vec<u8, 512>
ResponseCapacity == 512
\* the DNS header: if query.len() < 12, &query[12..]
DnsHeaderLen == 12

\* Option::None, Option::Some(x); a panic is the outcome of an index or a
\* slice outside the bounds of its array
None == [tag |-> "None"]
Some(x) == [tag |-> "Some", val |-> x]
Panic == [tag |-> "panic"]

\* the bounds check of a slicing expression &bytes[a..b]
RangeOk(bytes, a, b) == a <= b /\ b <= Len(bytes)

\* len & 0xC0, for a byte
AndC0(len) == (len \div 64) * 64

RECURSIVE NameEnd(_, _)
\* the loop of find_question_end from position p: the position after the name
NameEnd(bytes, p) ==
    IF p >= Len(bytes) THEN None
    ELSE IF ~IndexOk(p, Len(bytes)) THEN Panic
    ELSE LET len == bytes[p + 1]
         IN IF len = 0 THEN Some(p + 1)
            ELSE IF AndC0(len) = 192 THEN Some(p + 2)
            ELSE IF p + len + 1 > Len(bytes) THEN None
            ELSE NameEnd(bytes, p + len + 1)

\* (mutant) the position after type and class is returned without comparing
\* it with data.len()
find_question_end_unchecked(bytes) ==
    LET e == NameEnd(bytes, 0)
    IN IF e.tag # "Some" THEN e ELSE Some(e.val + 4)

\* fn find_question_end(data: &[u8]) -> Option<usize>
find_question_end(bytes) ==
    LET e == NameEnd(bytes, 0)
    IN IF e.tag # "Some" THEN e
       ELSE IF e.val + 4 <= Len(bytes) THEN Some(e.val + 4)
       ELSE None

\* response.extend_from_slice(s).ok()?
extend_from_slice(v, slice) ==
    IF Len(v) + Len(slice) <= ResponseCapacity THEN Some(v \o slice) ELSE None

RECURSIVE ExtendAll(_, _, _)
\* the extend_from_slice calls of build_dns_response from the k-th on
ExtendAll(v, parts, k) ==
    IF k > Len(parts) THEN Some(v)
    ELSE LET r == extend_from_slice(v, parts[k])
         IN IF r.tag # "Some" THEN r ELSE ExtendAll(r.val, parts, k + 1)

\* fn build_dns_response(query: &[u8], addr) -> Option<heapless::Vec<u8, 512>>
build_dns_response(query, addr) ==
    IF Len(query) < DnsHeaderLen THEN None
    ELSE IF ~RangeOk(query, DnsHeaderLen, Len(query)) THEN Panic
    ELSE LET question_end ==
                 find_question_end(SubSeq(query, DnsHeaderLen + 1, Len(query)))
         IN IF question_end.tag # "Some" THEN question_end
            ELSE IF ~RangeOk(query, DnsHeaderLen, DnsHeaderLen + question_end.val)
            THEN Panic
            ELSE ExtendAll(<< >>,
                           << SubSeq(query, 1, 2), << 133, 128 >>,
                              SubSeq(query, 5, 6), SubSeq(query, 5, 6),
                              << 0, 0 >>, << 0, 0 >>,
                              SubSeq(query, DnsHeaderLen + 1,
                                     DnsHeaderLen + question_end.val),
                              << 192, 12 >>, << 0, 1 >>, << 0, 1 >>,
                              << 0, 0, 0, 60 >>, << 0, 4 >>, addr >>, 1)

\* longest question section enumerated byte by byte
MaxQuestion == 7

\* a header: id 0x1234, flags 0x0100, one question
DnsHeader == << 18, 52, 1, 0, 0, 1, 0, 0, 0, 0, 0, 0 >>

\* the end of a name, a one-byte label length, the first byte of a pointer
QuestionBytes == { 0, 1, 192 }

\* a label of n bytes
Label(n) == << n >> \o [k \in 1..n |-> 97]

\* the name www, type A, class IN
QuestionWww == << 3, 119, 119, 119, 0, 0, 1, 0, 1 >>
\* a name of 490 bytes with type and class: the datagram fits the 512-byte
\* buffer, the response does not fit its Vec
QuestionLong ==
    Label(63) \o Label(63) \o Label(63) \o Label(63) \o Label(63) \o Label(63)
        \o Label(63) \o Label(40) \o << 0, 0, 1, 0, 1 >>
\* the longest name whose response fits: 484 bytes of question
QuestionFits ==
    Label(63) \o Label(63) \o Label(63) \o Label(63) \o Label(63) \o Label(63)
        \o Label(63) \o Label(30) \o << 0, 0, 1, 0, 1 >>

\* question sections: every byte sequence up to MaxQuestion over
\* QuestionBytes, and some with other length bytes
Questions ==
    UNION { [1..n -> QuestionBytes] : n \in 0..MaxQuestion }
      \cup { QuestionWww, QuestionLong, QuestionFits,
             << 128, 0, 0, 1, 0, 1 >>, << 64, 0, 0, 0, 0 >>,
             << 255, 12, 0, 1, 0, 1 >>, << 191 >>,
             << 2, 192, 12, 0, 0, 1, 0, 1 >> }

\* datagrams: shorter than a header, a bare header, a header and a question
Datagrams ==
    { << >>, SubSeq(DnsHeader, 1, 11), DnsHeader }
      \cup { DnsHeader \o q : q \in Questions }

\* bound_socket.receive(&mut buf).await; on Err the loop goes round
DnsReceive ==
    /\ d_pc = "receive"
    /\ \/ \E q \in Datagrams :
             /\ d_query' = q
             /\ d_pc' = "handle"
             /\ UNCHANGED d_resp
       \/ UNCHANGED dnsVars
    /\ UNCHANGED << camVars, httpVars >>

\* if len > 12 { let response = build_dns_response(&buf[..len], ADDR); .. }
DnsHandle ==
    /\ d_pc = "handle"
    /\ d_resp' = IF Len(d_query) > DnsHeaderLen
                 THEN build_dns_response(d_query, ADDR)
                 ELSE None
    /\ d_pc' = "respond"
    /\ UNCHANGED d_query
    /\ UNCHANGED << camVars, httpVars >>

\* if let Some(resp) = response { _ = bound_socket.send(remote, &resp).await }
\* and round the loop; a panic ends the task
DnsRespond ==
    /\ d_pc = "respond"
    /\ IF d_resp.tag = "panic"
       THEN d_pc' = "panicked" /\ UNCHANGED << d_query, d_resp >>
       ELSE d_pc' = "receive" /\ d_query' = << >> /\ d_resp' = None
    /\ UNCHANGED << camVars, httpVars >>

DnsNext ==
    \/ DnsReceive
    \/ DnsHandle
    \/ DnsRespond

SpecDns == Init /\ [][DnsNext]_vars


Spec == Init /\ [][Next]_vars

----------------------------------------------------------------------------
(* What the input contains, read off the chunks without running the scanner *)

RECURSIVE Flatten(_)
\* the bytes of a sequence of chunks, in order
Flatten(cs) == IF cs = << >> THEN << >>
               ELSE Flatten(SubSeq(cs, 1, Len(cs) - 1)) \o cs[Len(cs)]

RECURSIVE SumLen(_)
SumLen(cs) == IF cs = << >> THEN 0
              ELSE SumLen(SubSeq(cs, 1, Len(cs) - 1)) + Len(cs[Len(cs)])

\* positions of the stream that hold the last byte of a chunk
ChunkEnds(cs) == { SumLen(SubSeq(cs, 1, k)) : k \in 1..Len(cs) }

\* no FF D8 / FF D9 pair of the stream is cut by a chunk boundary
NoSplitMarker(cs) ==
    LET s == Flatten(cs)
    IN  \A p \in ChunkEnds(cs) :
           ~(p >= 1 /\ p < Len(s) /\ s[p] = 255 /\ s[p + 1] \in {SOI1, EOI1})

Min(S) == CHOOSE x \in S : \A y \in S : x <= y

\* first position >= from where the marker FF <second> starts, 0 if none
FirstMarker(s, from, second) ==
    LET c == { p \in from..(Len(s) - 1) : s[p] = 255 /\ s[p + 1] = second }
    IN  IF c = {} THEN 0 ELSE Min(c)

RECURSIVE FramesFrom(_, _)
\* the complete SOI..EOI frames of the stream s from position from on
FramesFrom(s, from) ==
    LET b == FirstMarker(s, from, SOI1)
    IN  IF b = 0 THEN << >>
        ELSE LET e == FirstMarker(s, b + 2, EOI1)
             IN  IF e = 0 THEN << >>
                 ELSE << SubSeq(s, b, e + 1) >> \o FramesFrom(s, e + 2)

RECURSIVE OpenFrom(_, _)
\* the bytes of the frame left open at the end of the stream (SOI seen, no EOI)
OpenFrom(s, from) ==
    LET b == FirstMarker(s, from, SOI1)
    IN  IF b = 0 THEN << >>
        ELSE LET e == FirstMarker(s, b + 2, EOI1)
             IN  IF e = 0 THEN SubSeq(s, b, Len(s))
                 ELSE OpenFrom(s, e + 2)

ExpectedFrames == FramesFrom(Flatten(consumed), 1)
OpenFrame == OpenFrom(Flatten(consumed), 1)

RECURSIVE Collect(_, _, _)
\* the frames of an event sequence: the Data payloads between a FrameStart and
\* its FrameEnd, concatenated
Collect(evs, k, cur) ==
    IF k > Len(evs) THEN << >>
    ELSE IF evs[k].tag = "FrameStart" THEN Collect(evs, k + 1, << >>)
    ELSE IF evs[k].tag = "Data" THEN Collect(evs, k + 1, cur \o evs[k].bytes)
    ELSE << cur >> \o Collect(evs, k + 1, << >>)

\* the frames the assembler has put out so far
FramesOut == IF variant = "direct" THEN emitted ELSE Collect(sent, 1, << >>)

\* the scanner is running and has finished the chunk it was given last
ChunkDone ==
    /\ variant \in {"direct", "queue"}
    /\ \/ pc \in {"receive", "skip", "peek", "stop"}
       \/ pc = "scan" /\ i >= Len(data)

AllFrames(P(_)) == \A k \in 1..Len(ExpectedFrames) : P(ExpectedFrames[k])

FitsBuffer(f) == Len(f) <= Len(frame_buffer)

----------------------------------------------------------------------------
(* Claims *)

\* C1: whenever the chunks fed so far hold only whole frames, none longer
\* than the buffer, and no marker is cut by a chunk boundary, the frames put
\* out are exactly the SOI..EOI byte ranges of the input, in order.
C1_FramesAsStated ==
    ( /\ ChunkDone
      /\ NoSplitMarker(consumed)
      /\ OpenFrame = << >>
      /\ variant = "direct" => AllFrames(FitsBuffer) )
    => FramesOut = ExpectedFrames


\* C2: a stream_camera or cam_task activation that has ended, by return or by
\* panic, has given the camera and its buffer back to the caller and left no
\* transfer active.
C2_HandleReturned ==
    pc \in {"done", "panic"} => (holder = "caller" /\ transfers = 0)

\* C3: a step of stream_camera that finds no room for the next byte of the
\* open frame discards the frame (in_frame false, cursor 0), emits nothing and
\* the scan goes on.
C3_OverflowDiscards ==
    [][ ( /\ variant = "direct" /\ pc = "scan" /\ i < Len(data)
          /\ found_start
          /\ ~(i + 1 < Len(data) /\ data[i + 1] = 255 /\ data[i + 2] = 217)
          /\ buf_len >= Len(frame_buffer) )
        => ( /\ found_start' = FALSE
             /\ buf_len' = 0
             /\ emitted' = emitted
             /\ pc' = "scan" ) ]_vars

\* C4: a step of stream_camera that finds the end marker with fewer than two
\* free bytes left drops the frame (in_frame false, cursor 0, nothing emitted)
\* and attempts no write past the buffer (which would panic). Stated for the
\* case of exactly one free byte, where no byte of the frame was dropped before.
C4_EndMarkerOverflowDrops ==
    [][ ( /\ variant = "direct" /\ pc = "scan" /\ i < Len(data)
          /\ found_start
          /\ i + 1 < Len(data) /\ data[i + 1] = 255 /\ data[i + 2] = 217
          /\ buf_len < Len(frame_buffer)
          /\ buf_len + 2 > Len(frame_buffer) )
        => ( /\ found_start' = FALSE
             /\ buf_len' = 0
             /\ emitted' = emitted
             /\ pc' # "panic" ) ]_vars

\* C5: only the last on_chunk call of a session can have failed, and once one
\* has failed the session is over: stream_camera has returned, the transfer is
\* stopped and the camera was handed back exactly once.
C5_WriteFailureEnds ==
    \A k \in 1..Len(writes) :
       ~writes[k] =>
          /\ k = Len(writes)
          /\ pc = "done"
          /\ released = 1
          /\ transfers = 0
          /\ holder = "caller"
          /\ sessions = 0

\* the second frame's write failed after the first one went out
C5_Witness ==
    /\ variant = "direct"
    /\ Len(writes) = 2
    /\ writes[1]
    /\ ~writes[2]
    /\ pc = "done"

\* C6: at most one transfer and one activation exist at any time, the camera
\* is inside a transfer exactly while one is active, and receive is only
\* reached with the previous transfer stopped and the pair back in the
\* activation's hands.
C6_OneHolder ==
    /\ transfers \in {0, 1}
    /\ sessions \in {0, 1}
    /\ (transfers = 1) <=> (holder = "transfer")
    /\ (holder \in {"session", "transfer"}) => sessions = 1
    /\ pc = "receive" => (transfers = 0 /\ holder = "session")

\* a later burst of the same activation is running
C6_Witness ==
    /\ transfers = 1
    /\ holder = "transfer"
    /\ pc = "skip"
    /\ Len(consumed) >= 2

\* no chunk fed so far holds FF D8 at two neighbouring positions
NoStartMarkerFed ==
    \A k \in 1..Len(consumed) :
       \A p \in 1..(Len(consumed[k]) - 1) :
          ~(consumed[k][p] = 255 /\ consumed[k][p + 1] = 216)

\* C7: as long as no chunk fed so far contains a start marker, nothing has
\* been emitted or sent, no frame is open and the cursor is 0 (cam_task: the
\* Vec is empty).
C7_GarbageNeverEmits ==
    \/ variant = "none"
    \/ /\ ~found_start
       /\ buf_len = 0
       /\ emitted = << >>
       /\ variant = "queue" => (frame_buffer = << >> /\ sent = << >>)
    \/ ~NoStartMarkerFed

\* three chunks of garbage, one of them a start marker cut in two, in two bursts
C7_Witness ==
    /\ variant = "direct"
    /\ consumed = << ChunkB, << 255 >>, << 216 >> >>
    /\ pc = "stop"
    /\ NoStartMarkerFed
    /\ emitted = << >>

\* C8: with a buffer of at least 7 bytes, after the chunks [AA FF D8 11 22] and
\* [33 FF D9 BB] exactly one frame was emitted, [FF D8 11 22 33 FF D9].
C8_TwoChunkFrame ==
    ( /\ variant = "direct"
      /\ consumed = << ChunkA, ChunkB >>
      /\ ChunkDone
      /\ Len(frame_buffer) >= 7 )
    => emitted = << << 255, 216, 17, 34, 51, 255, 217 >> >>

C8_Witness ==
    /\ variant = "direct"
    /\ consumed = << ChunkA, ChunkB >>
    /\ ChunkDone
    /\ Len(frame_buffer) = 7
    /\ Len(emitted) = 1

\* C9: the write cursor of stream_camera stays within 0..capacity.
C9_CursorInBounds ==
    variant = "direct" => (0 <= buf_len /\ buf_len <= Len(frame_buffer))

\* the cursor stands at the capacity, with a frame open
C9_Witness ==
    /\ variant = "direct"
    /\ found_start
    /\ Len(frame_buffer) = 4
    /\ buf_len = Len(frame_buffer)

\* C10: while no frame is open the cursor is 0 (cam_task: the Vec is empty).
C10_IdleCursorZero ==
    ~found_start => (buf_len = 0 /\ (variant = "queue" => frame_buffer = << >>))

\* a frame was completed and the scanner is looking for the next start marker
C10_Witness ==
    /\ variant = "direct"
    /\ ~found_start
    /\ Len(emitted) = 1
    /\ writes = << TRUE >>
    /\ pc = "scan"
    /\ i < Len(data)


----------------------------------------------------------------------------
(* The cursor while a frame is open *)

\* the slice ends with the end marker
EndsWithEOI(t) == Len(t) >= 2 /\ t[Len(t) - 1] = EOI0 /\ t[Len(t)] = EOI1

\* a step of a running stream_camera activation
StreamStep == variant = "direct" /\ pc \notin {"idle", "done"}

\* the step completed a frame: the write of the slice that ends with the end
\* marker has finished and the frame is closed
CompletionReset ==
    /\ pc = "await_end"
    /\ found_start /\ ~found_start'
    /\ writes' = Append(writes, TRUE)
    /\ Len(emitted[Len(emitted)]) = buf_len
    /\ EndsWithEOI(emitted[Len(emitted)])


\* the step dropped the open frame: it is closed without a write and the
\* cursor is cleared (overflow, resynchronization)
DropReset ==
    /\ found_start /\ ~found_start'
    /\ writes' = writes
    /\ emitted' = emitted

\* C11: while a frame is open the cursor never decreases, except that it is
\* cleared to 0 at the step that completes the frame or at a step that drops
\* it.
C11_CursorAsStated ==
    [][ (StreamStep /\ found_start /\ buf_len' < buf_len)
            => (buf_len' = 0 /\ (CompletionReset \/ DropReset)) ]_vars


----------------------------------------------------------------------------
(* Order of the completed frames *)

IsSuffix(t, s) == Len(t) <= Len(s) /\ SubSeq(s, Len(s) - Len(t) + 1, Len(s)) = t

\* what has reached the output at the detection of an end marker:
\* stream_camera, the slices that close a frame; cam_task, the frames of the
\* events taken off the channel
CompletedOut ==
    IF variant = "direct" THEN SelectSeq(emitted, EndsWithEOI)
    ELSE Collect(received, 1, << >>)

\* C12: the k-th completed frame that reaches the output is the k-th SOI..EOI
\* range of the input (its closing slice for stream_camera, the whole frame
\* for cam_task): none is reordered, duplicated or left out, and once the
\* chunks are scanned every frame of the input has been sent.
C12_InOrder ==
    (/\ variant \in {"direct", "queue"}
     /\ (ChunkDone \/ pc \in {"done", "panic"})
     /\ CompletedOut # << >>
     /\ NoSplitMarker(consumed))
        => /\ Len(CompletedOut) <= Len(ExpectedFrames)
           /\ \A k \in 1..Len(CompletedOut) :
                 IF variant = "direct"
                 THEN IsSuffix(CompletedOut[k], ExpectedFrames[k])
                 ELSE CompletedOut[k] = ExpectedFrames[k]
           /\ ChunkDone =>
                 Len(ExpectedFrames) =
                    IF variant = "direct" THEN Len(CompletedOut)
                    ELSE Len(Collect(sent, 1, << >>))

\* cam_task: two frames were taken off the channel, in the order of the input
C12_Witness ==
    /\ variant = "queue"
    /\ consumed = << ChunkC, ChunkA, ChunkB >>
    /\ Collect(received, 1, << >>)
          = << ChunkC, << 255, 216, 17, 34, 51, 255, 217 >> >>


----------------------------------------------------------------------------
(* CAM_CHANNEL *)

\* cam_task is awaiting the completion of a send
Sending == variant = "queue" /\ pc \in {"send_start", "send_last", "send_end", "send_chunk"}

\* the send cam_task is awaiting completes
SendCompletes == CamSendStart \/ CamSendLast \/ CamSendEnd \/ CamSendChunk

\* C13: CAM_CHANNEL never holds more than 5 events; a send awaited while it
\* holds 5 does not complete (and completes as soon as it holds fewer); no
\* event can be taken off the empty channel; the events taken off, followed
\* by those still in the channel, are the events sent, in the order sent.
C13_Channel ==
    /\ Len(chan) <= ChannelCapacity
    /\ received \o chan = sent
    /\ Sending => (ENABLED SendCompletes <=> Len(chan) < ChannelCapacity)
    /\ chan = << >> => ~ENABLED Deliver

\* cam_task waits with a send on the full channel after events were taken off
C13_Witness ==
    /\ Sending
    /\ Len(chan) = ChannelCapacity
    /\ received # << >>


----------------------------------------------------------------------------
(* A burst that ends with an empty peek *)

\* in_frame, the cursor and the buffered bytes
parser == << found_start, buf_len, frame_buffer >>

\* the last peek of stream_camera returned no bytes and eof
EmptyEof == variant = "direct" /\ data = << >> /\ eof

\* C14: a peek of stream_camera that returns zero bytes with eof leaves
\* in_frame, the cursor and the buffer as they were, and so does the rest of
\* the burst: nothing is sent, the scan of the empty chunk ends in stop(), and
\* stop() is followed by the receive of the next burst with the activation
\* still running.
C14_EmptyBurstEnd ==
    [][ /\ (variant = "direct" /\ pc = "peek" /\ data' = << >> /\ eof')
            => (pc' = "scan" /\ UNCHANGED << parser, emitted, wire, sessions >>)
        /\ (EmptyEof /\ pc = "scan")
            => (pc' = "stop" /\ UNCHANGED << parser, emitted, wire, sessions >>)
        /\ (EmptyEof /\ pc = "stop")
            => /\ pc' = "receive"
               /\ transfers' = transfers - 1
               /\ UNCHANGED << parser, emitted, wire, sessions >> ]_vars

\* with a frame open, a burst ended on an empty peek, was stopped, and the
\* next burst is about to be requested
C14_Witness ==
    /\ EmptyEof
    /\ pc = "receive"
    /\ consumed = << ChunkA, << >> >>
    /\ found_start
    /\ buf_len = 4
    /\ transfers = 0
    /\ sessions = 1


----------------------------------------------------------------------------
(* What is written to the socket *)

\* C15: in every activation of stream_camera, whatever has been written to
\* the socket begins with the response header, which comes before any byte of
\* the first frame and is written exactly once.
C15_HeaderOnce ==
    (variant = "direct" /\ wire # << >>)
        => /\ wire[1] = ResponseHeader
           /\ \A k \in 2..Len(wire) : wire[k].kind # "response_header"


\* number of on_chunk calls that wrote their whole part: all of them, or all
\* but the last when the last one failed
WholeParts ==
    IF writes # << >> /\ ~writes[Len(writes)] THEN Len(writes) - 1 ELSE Len(writes)

\* the k-th part on the socket is exactly: part header with the length of
\* the bytes b in decimal, the bytes b, CRLF
PartIs(k, b) ==
    /\ Len(wire) >= 3 * k
    /\ wire[3 * k - 2].kind = "part_header"
    /\ DecimalValue(wire[3 * k - 2].length) = Len(b)
    /\ wire[3 * k - 1] = Body(b)
    /\ wire[3 * k] = Crlf

\* C16: when the chunks scanned held only whole frames that fit the buffer
\* and no write failed, the socket carries one part per frame of the input and
\* nothing else between the parts, each part being the part header with the
\* frame's length, the frame's bytes and CRLF.
C16_PartsAsStated ==
    ( /\ variant = "direct"
      /\ ChunkDone
      /\ WholeParts = Len(writes)
      /\ NoSplitMarker(consumed)
      /\ OpenFrame = << >>
      /\ AllFrames(FitsBuffer) )
    => /\ Len(wire) = 3 * Len(ExpectedFrames)
       /\ \A k \in 1..Len(ExpectedFrames) : PartIs(k, ExpectedFrames[k])


----------------------------------------------------------------------------
(* The stream route of http_handle *)

\* "GET /stream"
PatStream == << 71, 69, 84, 32, 47, 115, 116, 114, 101, 97, 109 >>

\* a request for the camera: the /snapshot path the camera page loads its
\* image from, or /stream
IsStreamRequest(r) == Contains(r, PatSnapshot) \/ Contains(r, PatStream)

\* C17: when http_handle has routed a request for the camera and is about to
\* flush and close the socket, a stream_camera activation has run on that
\* socket and has ended; no two activations run at once.
C17_StreamHandedOver ==
    /\ sessions <= 1
    /\ (h_pc = "flush" /\ IsStreamRequest(Buffered))
           => (variant = "direct" /\ pc = "done" /\ sessions = 0)


----------------------------------------------------------------------------
(* What a slice handed to on_chunk is *)

StartsWithSOI(t) == Len(t) >= 2 /\ t[1] = SOI0 /\ t[2] = SOI1


\* C18: every slice handed to on_chunk is a whole frame: it begins with FF D8
\* and ends with FF D9.
C18_WholeAsStated ==
    variant = "direct"
        => \A k \in 1..Len(emitted) :
              StartsWithSOI(emitted[k]) /\ EndsWithEOI(emitted[k])


----------------------------------------------------------------------------
(* Markers cut by a chunk boundary *)

\* FF D8 17 34 followed by the two bytes of an end marker
OpenWithSplitEnd == << 255, 216, 17, 34, 255, 217 >>

\* C19: after the chunks [FF] and [D8] no frame is open and nothing has been
\* put out; after [AA FF D8 11 22], [FF] and [D9] the frame is still open,
\* nothing has been completed, and FF and D9 were stored as frame data (as
\* far as the buffer of stream_camera has room for them).
C19_SplitMarkers ==
    /\ (ChunkDone /\ consumed = << << 255 >>, << 216 >> >>)
          => /\ ~found_start
             /\ emitted = << >>
             /\ sent = << >>
    /\ (ChunkDone /\ consumed = << ChunkA, << 255 >>, << 217 >> >>)
          => /\ found_start
             /\ emitted = << >>
             /\ variant = "direct" =>
                   /\ buf_len = Min2(6, Len(frame_buffer))
                   /\ Slice(frame_buffer, buf_len) = SubSeq(OpenWithSplitEnd, 1, buf_len)
             /\ variant = "queue" =>
                   /\ frame_buffer = OpenWithSplitEnd
                   /\ sent = << FrameStart >>

\* cam_task holds an open frame that ends with the two bytes of an end marker
\* received in two chunks
C19_Witness ==
    /\ variant = "queue"
    /\ ChunkDone
    /\ consumed = << ChunkA, << 255 >>, << 217 >> >>
    /\ found_start
    /\ frame_buffer = OpenWithSplitEnd


----------------------------------------------------------------------------
(* Burst boundaries *)

\* between the end of one burst and the first peek of the next: stop and the
\* delay, receive, the skipping of the dummy transfers
AtBurstBoundary ==
    variant \in {"direct", "queue"} /\ pc \in {"stop", "receive", "skip"}

\* a frame that was open when a burst was stopped has been closed, and no
\* marker was cut by a chunk boundary
SpannedFrameClosed ==
    /\ ChunkDone
    /\ spanned
    /\ ~found_start
    /\ NoSplitMarker(consumed)

\* C20: no step between the end of a burst and the first peek of the next
\* changes in_frame, the cursor or the accumulated bytes; and once a frame
\* that was open when a burst was stopped has been closed, the frames put out
\* are the SOI..EOI ranges of the input, the frame that spans the bursts among
\* them as one frame.
C20_BurstBoundary ==
    /\ [][ AtBurstBoundary => UNCHANGED parser ]_vars
    /\ [](SpannedFrameClosed => (FramesOut = ExpectedFrames /\ FramesOut # << >>))


----------------------------------------------------------------------------
(* The events cam_task sends *)

RECURSIVE Grammar(_, _, _)
\* where reading evs from its k-th event on leaves a reader of
\* (FrameStart Data+ FrameEnd)* that is in state st: "out" between groups,
\* "started" after FrameStart, "data" after a Data of the group, "bad" once
\* an event does not fit
Grammar(evs, k, st) ==
    IF k > Len(evs) \/ st = "bad" THEN st
    ELSE LET t == evs[k].tag
         IN  Grammar(evs, k + 1,
                IF st = "out" /\ t = "FrameStart" THEN "started"
                ELSE IF st \in {"started", "data"} /\ t = "Data" THEN "data"
                ELSE IF st = "data" /\ t = "FrameEnd" THEN "out"
                ELSE "bad")

\* C21: the events cam_task has sent are at every moment the beginning of a
\* sequence of the form (FrameStart Data+ FrameEnd)*, a group being open
\* exactly while a frame is open, and every Data payload is non-empty.
C21_EventGrammar ==
    variant = "queue"
        => /\ Grammar(sent, 1, "out") # "bad"
           /\ \A k \in 1..Len(sent) : sent[k].tag = "Data" => sent[k].bytes # << >>
           /\ pc \in {"receive", "skip", "peek", "scan", "stop"}
                 => (found_start <=> Grammar(sent, 1, "out") # "out")

\* cam_task has sent two whole groups and opened a third
C21_Witness ==
    /\ variant = "queue"
    /\ Len(sent) = 7
    /\ sent[7] = FrameStart
    /\ Grammar(sent, 1, "out") = "started"

\* first position >= from where the marker FF <second> starts with both bytes
\* in one chunk (cuts: the positions that end a chunk), 0 if none
FirstMarkerUncut(s, from, second, cuts) ==
    LET c == { p \in from..(Len(s) - 1) :
                  s[p] = 255 /\ s[p + 1] = second /\ p \notin cuts }
    IN  IF c = {} THEN 0 ELSE Min(c)

RECURSIVE FramesUncut(_, _, _)
\* the frames of the stream s from position from on, from each start marker
\* to the next end marker, markers cut by a chunk boundary not counting
FramesUncut(s, from, cuts) ==
    LET b == FirstMarkerUncut(s, from, SOI1, cuts)
    IN  IF b = 0 THEN << >>
        ELSE LET e == FirstMarkerUncut(s, b + 2, EOI1, cuts)
             IN  IF e = 0 THEN << >>
                 ELSE << SubSeq(s, b, e + 1) >> \o FramesUncut(s, e + 2, cuts)

RECURSIVE OpenUncut(_, _, _)
\* the bytes of the frame left open at the end of the stream
OpenUncut(s, from, cuts) ==
    LET b == FirstMarkerUncut(s, from, SOI1, cuts)
    IN  IF b = 0 THEN << >>
        ELSE LET e == FirstMarkerUncut(s, b + 2, EOI1, cuts)
             IN  IF e = 0 THEN SubSeq(s, b, Len(s))
                 ELSE OpenUncut(s, e + 2, cuts)

RECURSIVE CollectOpen(_, _, _)
\* the Data payloads of the group of evs that has no FrameEnd yet, concatenated
CollectOpen(evs, k, cur) ==
    IF k > Len(evs) THEN cur
    ELSE IF evs[k].tag = "Data" THEN CollectOpen(evs, k + 1, cur \o evs[k].bytes)
    ELSE CollectOpen(evs, k + 1, << >>)

\* C22: once cam_task has scanned the chunks it was given, the Data payloads
\* of each FrameStart..FrameEnd group sent, concatenated, are the input bytes
\* from a start marker to the next end marker inclusive (markers with both
\* bytes in one chunk), group by group; the payloads of a group still open,
\* followed by the bytes still in the Vec, are the input bytes of the open
\* frame; and a Data that is not the last of its group holds exactly 2048
\* bytes.
C22_Payloads ==
    (variant = "queue" /\ ChunkDone)
        => LET s == Flatten(consumed)
               cuts == ChunkEnds(consumed)
           IN  /\ Collect(sent, 1, << >>) = FramesUncut(s, 1, cuts)
               /\ CollectOpen(sent, 1, << >>) \o frame_buffer = OpenUncut(s, 1, cuts)
               /\ \A k \in 1..(Len(sent) - 1) :
                     (sent[k].tag = "Data" /\ sent[k + 1].tag = "Data")
                        => Len(sent[k].bytes) = ChunkThreshold

\* a frame of 2051 bytes was sent as a Data of 2048 bytes and a Data of 3
C22_Witness ==
    /\ variant = "queue"
    /\ ChunkDone
    /\ Len(sent) = 4
    /\ sent[4] = FrameEnd
    /\ Len(sent[2].bytes) = ChunkThreshold
    /\ sent[3] = Data(<< 51, 255, 217 >>)


----------------------------------------------------------------------------
(* The dummy transfers at the start of a burst *)

\* the function is in its scanning loop, or awaiting a send made from it
Scanning ==
    /\ variant \in {"direct", "queue"}
    /\ pc \in {"peek", "scan", "send_start", "send_last", "send_end", "send_chunk"}

\* C23: a step of the loop that skips the dummy transfers changes neither
\* in_frame, the cursor, the buffer, what was handed to the scanner nor what
\* was put out, whatever the bytes it peeks, and leaves the loop only with
\* the second eof; the scanning loop runs only after two eofs were skipped,
\* and is left for stop() only when a chunk was scanned to its end and came
\* with eof, the third of the burst.
C23_DummySkip ==
    /\ [][ (variant \in {"direct", "queue"} /\ pc = "skip" /\ received' = received)
              => /\ UNCHANGED << parser, consumed, emitted, wire, sent, transfers >>
                 /\ pc' \in {"skip", "peek"}
                 /\ pc' = "peek" <=> (eof' /\ skip_n = DummyTransfers - 1) ]_vars
    /\ [][ (Scanning /\ pc' = "stop")
              => (pc = "scan" /\ i >= Len(data) /\ eof /\ UNCHANGED eof) ]_vars
    /\ [](Scanning => skip_n = DummyTransfers)
    /\ []((variant \in {"direct", "queue"} /\ pc = "skip") => skip_n < DummyTransfers)

\* a whole frame went by in the second dummy transfer and nothing came of
\* it: the first scanned peek is still to come and no frame is open
C23_Witness ==
    /\ variant = "direct"
    /\ pc = "peek"
    /\ skip_n = DummyTransfers
    /\ data = ChunkC
    /\ eof
    /\ consumed = << >>
    /\ ~found_start
    /\ emitted = << >>

----------------------------------------------------------------------------
(* The request-reading loop of http_handle *)

\* one pass of the while loop has run: the handler was reading and moved
ReadPass == h_pc = "read" /\ HttpRead

\* C24: the request-reading loop ends for every sequence of read outcomes:
\* each pass either leaves the loop or adds at least one byte to pos, pos
\* never exceeds the 2048-byte buffer (so at most 2048 passes follow each
\* other), and the handler is back at accept only with the socket closed,
\* never still in the loop once it has closed the socket.
C24_ReadLoopEnds ==
    /\ [](pos <= BufferLen)
    /\ [][ReadPass => (h_pc' # "read" \/ pos' > pos)]_vars
    /\ [](h_pc = "read" => h_sock = "open")
    /\ [][(h_pc # "accept" /\ h_pc' = "accept") => h_sock' = "closed"]_vars

----------------------------------------------------------------------------
(* The response http_handle writes *)

\* the response of the first rule that matches, in the order hotspot page,
\* /snapshot, portal page, captive-portal check, default
FirstRule(r) ==
    IF Contains(r, PatHotspotPage) THEN "simple_portal_page"
    ELSE IF Contains(r, PatSnapshot) THEN "snapshot"
    ELSE IF Contains(r, PatPortal) \/ Contains(r, PatIndex) \/ Contains(r, PatRoot)
         THEN "portal_page"
    ELSE IF is_captive_portal_check(r) THEN "redirect_to_portal"
    ELSE "redirect_to_portal"

\* C25: a request is routed only when at least one byte was read; routing can
\* write exactly the response of the first matching rule (it does unless the
\* write fails), and when the handler flushes and closes, the socket holds
\* that one response and never another or a second one.
C25_OneResponse ==
    /\ h_pc = "route"
          => /\ pos > 0
             /\ ENABLED (HttpRoute /\ h_out' = << FirstRule(Buffered) >>)
    /\ h_pc = "flush" => h_out \in { << >>, << FirstRule(Buffered) >> }

----------------------------------------------------------------------------
(* The question section of a DNS query *)

\* &query[12..], the question section passed to find_question_end
QuestionSection == SubSeq(d_query, DnsHeaderLen + 1, Len(d_query))

\* the name ends just before the four bytes of type and class that end at p:
\* with a zero byte, or with a two-byte pointer
NameEndsBefore(bytes, p) ==
    /\ p >= 5
    /\ \/ bytes[p - 4] = 0
       \/ p >= 6 /\ AndC0(bytes[p - 5]) = 192

\* C26: for every datagram dns_task handles, find_question_end on its question
\* section returns None or Some(p) with p within the section and after a
\* name end, never an out-of-bounds index; build_dns_response returns without
\* a panic, Some exactly when the question end was found and the response
\* fits its 512 bytes, and that response copies the question and ends with
\* the address.
C26_QuestionEnd ==
    /\ d_pc # "panicked"
    /\ (d_pc = "respond" /\ Len(d_query) > DnsHeaderLen)
          => LET e == find_question_end(QuestionSection)
             IN /\ e.tag \in { "Some", "None" }
                /\ e.tag = "Some"
                      => /\ e.val <= Len(QuestionSection)
                         /\ NameEndsBefore(QuestionSection, e.val)
                /\ d_resp.tag \in { "Some", "None" }
                /\ d_resp.tag = "Some"
                      <=> /\ e.tag = "Some"
                          /\ DnsHeaderLen + e.val + 16 <= ResponseCapacity
                /\ d_resp.tag = "Some"
                      => /\ Len(d_resp.val) = DnsHeaderLen + e.val + 16
                         /\ SubSeq(d_resp.val, DnsHeaderLen + 1, DnsHeaderLen + e.val)
                               = SubSeq(QuestionSection, 1, e.val)
                         /\ SubSeq(d_resp.val, Len(d_resp.val) - 3, Len(d_resp.val))
                               = ADDR

\* a one-byte label followed by the first byte of a pointer that is cut off:
\* the position runs past the data and the result is None
C26_Witness ==
    /\ d_pc = "respond"
    /\ QuestionSection = << 1, 0, 192 >>
    /\ d_resp = None

====
